---- MODULE Spec2Model ----
(***************************************************************************)
(* Model of scripts/czds_download_and_sync.py: the line parser, the        *)
(* selection of zone files, and the per-TLD delete-and-reinsert into the   *)
(* store as main drives it.                                                *)
(*                                                                         *)
(* A Python str is a sequence of one-character strings.  An Optional value *)
(* is a set: None is {} and a value x is {x}.                              *)
(***************************************************************************)
EXTENDS Integers, Sequences, FiniteSets

\* ------------------------------------------------------------------ bounds
MaxLineLen == 4
MaxListing == 3
MaxCount == 3
MaxBatch == 2
MaxClock == 3

\* ------------------------------------------------------------ Python values
None == {}
Some(x) == {x}
Val(o) == CHOOSE x \in o : TRUE

TAB == "\t"
NL == "\n"
SP == " "

CR == "\r"
FF == "\f"

\* The characters of a string are those of U+0000 to U+00FF; the ones with
\* no escape are written as themselves.
\* U+000B, U+0085, U+00A0
LatinSpaces == {"", "", " "}

\* U+001C, U+001D, U+001E, U+001F
SeparatorSpaces == {"", "", "", ""}

\* The characters str.isspace() holds of: what str.strip() removes.
Whitespace == {SP, TAB, NL, CR, FF} \cup LatinSpaces \cup SeparatorSpaces

\* What int() skips around the number: the same but for U+001C to U+001F,
\* which it takes for part of the literal.
IntSpace == Whitespace \ SeparatorSpaces

IsSpace(c) == c \in Whitespace

IsDigit(c) == c \in {"0", "1", "2", "3", "4", "5", "6", "7", "8", "9"}

DigitVal(c) ==
    CASE c = "0" -> 0 [] c = "1" -> 1 [] c = "2" -> 2 [] c = "3" -> 3
      [] c = "4" -> 4 [] c = "5" -> 5 [] c = "6" -> 6 [] c = "7" -> 7
      [] c = "8" -> 8 [] c = "9" -> 9

\* s[from:] for 1-based from
Drop(s, n) == SubSeq(s, n + 1, Len(s))
Take(s, n) == SubSeq(s, 1, n)

StartsWith(s, p) == Len(s) >= Len(p) /\ Take(s, Len(p)) = p
EndsWith(s, p) == Len(s) >= Len(p) /\ Drop(s, Len(s) - Len(p)) = p

RECURSIVE RStripChars(_, _)
RStripChars(s, cs) ==
    IF s # <<>> /\ s[Len(s)] \in cs THEN RStripChars(Take(s, Len(s) - 1), cs) ELSE s

RECURSIVE LStripChars(_, _)
LStripChars(s, cs) ==
    IF s # <<>> /\ s[1] \in cs THEN LStripChars(Drop(s, 1), cs) ELSE s

\* str.strip()
Strip(s) == LStripChars(RStripChars(s, Whitespace), Whitespace)

\* str.split(sep) for a one-character sep: always at least one part.
RECURSIVE Split(_, _)
Split(s, sep) ==
    IF \E i \in 1..Len(s) : s[i] = sep
    THEN LET i == CHOOSE j \in 1..Len(s) : s[j] = sep /\ \A k \in 1..(j - 1) : s[k] # sep
         IN  <<Take(s, i - 1)>> \o Split(Drop(s, i), sep)
    ELSE <<s>>

\* sep.join(parts)
RECURSIVE Join(_, _)
Join(parts, sep) ==
    IF parts = <<>> THEN <<>>
    ELSE IF Len(parts) = 1 THEN parts[1]
    ELSE parts[1] \o <<sep>> \o Join(Tail(parts), sep)

\* The digits-and-underscores body of an int() literal: digits, with single
\* underscores only between digits.
DigitsOk(d) ==
    /\ d # <<>>
    /\ \A i \in 1..Len(d) : IsDigit(d[i]) \/ d[i] = "_"
    /\ IsDigit(d[1]) /\ IsDigit(d[Len(d)])
    /\ \A i \in 1..(Len(d) - 1) : ~(d[i] = "_" /\ d[i + 1] = "_")

RECURSIVE DigitsValue(_, _)
DigitsValue(d, acc) ==
    IF d = <<>> THEN acc
    ELSE IF d[1] = "_" THEN DigitsValue(Tail(d), acc)
    ELSE DigitsValue(Tail(d), 10 * acc + DigitVal(d[1]))

\* int(s): Some(n), or None where Python raises ValueError.
PyInt(s) ==
    LET t == LStripChars(RStripChars(s, IntSpace), IntSpace)
        signed == t # <<>> /\ t[1] \in {"-", "+"}
        d == IF signed THEN Tail(t) ELSE t
    IN  IF ~DigitsOk(d) THEN None
        ELSE IF signed /\ t[1] = "-" THEN Some(0 - DigitsValue(d, 0))
        ELSE Some(DigitsValue(d, 0))

\* `x or None` for a str x
OrNone(s) == IF s = <<>> THEN None ELSE Some(s)

\* --------------------------------------------------------------- parse_line
\* len(parts) < 4, the malformed-line test
TooFewFields_Mutant(parts) == Len(parts) < 5
TooFewFields(parts) == Len(parts) < 4

\* parse_line(line): None, or Some(<<owner, ttl, class, type, rdata>>)
parse_line(ln) ==
    LET l == RStripChars(ln, {NL})
        parts == Split(l, TAB)
        rdata == IF Len(parts) > 4 THEN Strip(Join(Drop(parts, 4), TAB)) ELSE <<>>
        ttl == IF parts[2] # <<>> THEN PyInt(parts[2]) ELSE None
    IN  IF l = <<>> \/ StartsWith(l, <<";">>) \/ StartsWith(l, <<"$">>) THEN None
        ELSE IF TooFewFields(parts) THEN None
        ELSE Some(<<parts[1], ttl, OrNone(parts[3]), OrNone(parts[4]), OrNone(rdata)>>)

\* ------------------------------------------------------------- tld_from_url
\* str.replace(old, "") : every non-overlapping occurrence, left to right
RECURSIVE RemoveAll(_, _)
RemoveAll(s, old) ==
    IF s = <<>> THEN <<>>
    ELSE IF StartsWith(s, old) THEN RemoveAll(Drop(s, Len(old)), old)
    ELSE <<s[1]>> \o RemoveAll(Tail(s), old)

DotZone == <<".", "z", "o", "n", "e">>

tld_from_url(url) ==
    LET segs == Split(RStripChars(url, {"/"}), "/")
        base == segs[Len(segs)]
    IN  IF EndsWith(base, DotZone) THEN RemoveAll(base, DotZone) ELSE base

\* ------------------------------------------------------- selection in main
\* the capitals of U+0000 to U+00FF and their small letters: A to Z, and
\* U+00C0 to U+00DE but for the sign U+00D7
UpperChars == <<"A", "B", "C", "D", "E", "F", "G", "H", "I", "J", "K", "L", "M",
                "N", "O", "P", "Q", "R", "S", "T", "U", "V", "W", "X", "Y", "Z",
                "À", "Á", "Â", "Ã", "Ä", "Å", "Æ", "Ç", "È", "É", "Ê", "Ë", "Ì", "Í", "Î",
                "Ï", "Ð", "Ñ", "Ò", "Ó", "Ô", "Õ", "Ö", "Ø", "Ù", "Ú", "Û", "Ü", "Ý", "Þ">>
LowerChars == <<"a", "b", "c", "d", "e", "f", "g", "h", "i", "j", "k", "l", "m",
                "n", "o", "p", "q", "r", "s", "t", "u", "v", "w", "x", "y", "z",
                "à", "á", "â", "ã", "ä", "å", "æ", "ç", "è", "é", "ê", "ë", "ì", "í", "î",
                "ï", "ð", "ñ", "ò", "ó", "ô", "õ", "ö", "ø", "ù", "ú", "û", "ü", "ý", "þ">>

LowerChar(c) ==
    IF \E i \in 1..Len(UpperChars) : UpperChars[i] = c
    THEN LowerChars[CHOOSE i \in 1..Len(UpperChars) : UpperChars[i] = c]
    ELSE c

\* str.lower()
Lower(s) == [i \in 1..Len(s) |-> LowerChar(s[i])]

RECURSIVE StripLowerNonEmpty(_)
StripLowerNonEmpty(parts) ==
    IF parts = <<>> THEN <<>>
    ELSE (IF Strip(parts[1]) # <<>> THEN <<Lower(Strip(parts[1]))>> ELSE <<>>)
         \o StripLowerNonEmpty(Tail(parts))

\* tld_whitelist of main, from the TLD_WHITELIST text (unset reads as ""):
\* None, or Some(list of lower-cased entries)
ParseWhitelist(env) ==
    LET e == Strip(env)
    IN  IF e # <<>> THEN Some(StripLowerNonEmpty(Split(e, ","))) ELSE None

\* `if tld_whitelist:` : neither None nor the empty list
WhitelistGiven(wl) == wl # None /\ Val(wl) # <<>>

InList(x, l) == \E i \in 1..Len(l) : l[i] = x

\* s[:m], m any integer
PySliceTo(s, m) ==
    IF m >= 0 THEN Take(s, IF m < Len(s) THEN m ELSE Len(s))
    ELSE Take(s, IF Len(s) + m > 0 THEN Len(s) + m ELSE 0)

\* [(u, tld_from_url(u)) for u in urls]
UrlTlds(urls) == [i \in 1..Len(urls) |-> <<urls[i], tld_from_url(urls[i])>>]

Allowed(ut, wl) == InList(Lower(ut[2]), wl)

RECURSIVE FilterAllowed(_, _)
FilterAllowed(uts, wl) ==
    IF uts = <<>> THEN <<>>
    ELSE (IF Allowed(uts[1], wl) THEN <<uts[1]>> ELSE <<>>) \o FilterAllowed(Tail(uts), wl)

\* mutant: the count limit applied to the allow-listed resources too
SelectUrlTlds_Mutant(urls, wl, max_tlds) ==
    IF WhitelistGiven(wl) THEN PySliceTo(FilterAllowed(UrlTlds(urls), Val(wl)), max_tlds)
    ELSE PySliceTo(UrlTlds(urls), max_tlds)

\* url_tlds of main
SelectUrlTlds(urls, wl, max_tlds) ==
    IF WhitelistGiven(wl) THEN FilterAllowed(UrlTlds(urls), Val(wl))
    ELSE PySliceTo(UrlTlds(urls), max_tlds)

\* --------------------------------------------------------------- the store
\* A row of records is <<tld, owner, ttl, class, type, rdata, synced_at>>; a
\* row of zones is <<tld, synced_at>>.  A table is the sequence of its rows in
\* id order.  synced_at is NOW(), the time the inserting transaction began.
RowTld(r) == r[1]
RowData(r) == <<r[1], r[2], r[3], r[4], r[5], r[6]>>
RowSyncedAt(r) == r[7]

RECURSIVE RowsWhere(_, _, _)
RowsWhere(rows, tld, keep) ==
    IF rows = <<>> THEN <<>>
    ELSE (IF (RowTld(rows[1]) = tld) = keep THEN <<rows[1]>> ELSE <<>>)
         \o RowsWhere(Tail(rows), tld, keep)

\* mutant: the old rows are left in place
DeleteRecords_Mutant(recs, tld) == recs

\* mutant: the WHERE clause dropped
DeleteRecords_All(recs, tld) == <<>>

\* mutant: the WHERE condition inverted
DeleteRecords_Inverted(recs, tld) == RowsWhere(recs, tld, TRUE)

\* DELETE FROM records WHERE tld = %s
DeleteRecords(recs, tld) == RowsWhere(recs, tld, FALSE)

\* cur.rowcount of that DELETE
DeletedCount(recs, tld) == Len(RowsWhere(recs, tld, TRUE))

\* INSERT INTO records (tld, owner, ttl, class, type, rdata) VALUES ...
InsertRows(batch, at) == [i \in 1..Len(batch) |-> batch[i] \o <<at>>]

\* conn.commit(): the transaction's rows join the table
Commit(recs, pend) == recs \o pend

\* mutant: closing commits what is pending
ConnClose_Mutant(recs, pend) == recs \o pend

\* conn.close() with a transaction open: what is pending is discarded
ConnClose(recs, pend) == recs

HasZone(zs, tld) == \E i \in 1..Len(zs) : zs[i][1] = tld

\* mutant: a plain INSERT
UpsertZone_Mutant(zs, tld, at) == Append(zs, <<tld, at>>)

\* INSERT INTO zones (tld, synced_at) VALUES (%s, NOW())
\*   ON CONFLICT (tld) DO UPDATE SET synced_at = NOW()
UpsertZone(zs, tld, at) ==
    IF HasZone(zs, tld)
    THEN [i \in 1..Len(zs) |-> IF zs[i][1] = tld THEN <<tld, at>> ELSE zs[i]]
    ELSE Append(zs, <<tld, at>>)

\* ----------------------------------------------------------- download_zone
\* What get_zonefile did: it raised, or it left `files` in work_dir; a file is
\* [ext, lines], in the order glob yields them.
RecognizedExts == <<"gz", "zone", "txt">>

RECURSIVE FirstWithExt(_, _)
FirstWithExt(files, exts) ==
    IF exts = <<>> THEN None
    ELSE IF \E i \in 1..Len(files) : files[i].ext = exts[1]
    THEN Some(files[CHOOSE i \in 1..Len(files) :
                        /\ files[i].ext = exts[1]
                        /\ \A j \in 1..(i - 1) : files[j].ext # exts[1]])
    ELSE FirstWithExt(files, Tail(exts))

download_zone(outcome) ==
    IF outcome.raised THEN None ELSE FirstWithExt(outcome.files, RecognizedExts)

\* mutant: the sync runs whatever the download returned
PathFound_Mutant(path) == TRUE

\* `if not path: continue`
PathFound(path) == path # None

\* -------------------------------------------------------- stream_zone_lines
\* every row the generator yields for the lines of a file, in order
RECURSIVE ParseLines(_)
ParseLines(lines) ==
    IF lines = <<>> THEN <<>>
    ELSE (IF parse_line(lines[1]) # None THEN <<Val(parse_line(lines[1]))>> ELSE <<>>)
         \o ParseLines(Tail(lines))

\* ----------------------------------------------------------- sync_tld_to_db
\* mutant: the buffer is flushed one row late
BatchFull_Mutant(batch, batch_size) == Len(batch) > batch_size

\* len(batch) >= batch_size
BatchFull(batch, batch_size) == Len(batch) >= batch_size

\* ------------------------------------------------------------------- state
VARIABLES
    line,        \* parse_line: the argument
    row,         \* parse_line: the value returned
    parsed,      \* parse_line has returned
    sel_urls,    \* selection: what get_zonefiles_list returned
    sel_env,     \* selection: the TLD_WHITELIST text
    sel_max,     \* selection: MAX_TLDS
    sel_out,     \* selection: url_tlds
    sel_done,    \* selection: computed
    pc,          \* main: where the run is
    url_tlds,    \* main: the selected (url, tld) pairs
    idx,         \* main: i of the for loop
    batch_size,  \* main: BATCH_SIZE
    path,        \* main: what download_zone returned for the current pair
    err,         \* main: the step whose exception ended the run, "" if none
    downloads,   \* main: download_zone calls of this run
    conns,       \* psycopg2.connect calls of this run
    deleted,     \* sync_tld_to_db: deleted
    pos,         \* sync_tld_to_db: lines of the resource consumed
    batch,       \* sync_tld_to_db: batch
    inserted,    \* sync_tld_to_db: inserted
    calls,       \* sync_tld_to_db: the length of the batch of each execute_values
    pending,     \* the connection's rows inserted and not yet committed
    result,      \* main: n, what the last sync_tld_to_db returned
    schema,      \* the store: the tables exist
    records,     \* the store: committed rows of records
    zones,       \* the store: committed rows of zones
    now,         \* the store's clock, one tick per sync connection
    snap,        \* history: the store and conns when the current pair was begun
    lastSync,    \* history: per tld, the last sync whose delete was committed
    hist         \* history: the last sync_tld_to_db call, if it returned, with
                 \* the store it began from and the store it left

parseVars == <<line, row, parsed>>
selVars == <<sel_urls, sel_env, sel_max, sel_out, sel_done>>
runVars == <<pc, url_tlds, idx, batch_size, path, err, downloads, conns>>
syncVars == <<deleted, pos, batch, inserted, calls, pending, result>>
storeVars == <<schema, records, zones, now>>
histVars == <<snap, lastSync, hist>>
mainVars == <<runVars, syncVars, storeVars, histVars>>
vars == <<parseVars, selVars, mainVars>>

\* ------------------------------------------------------------------ inputs
\* The characters lines are drawn from: a letter, two digits, the separator,
\* the comment and directive markers, newline, space and form feed.
Alphabet == {"a", "1", "2", TAB, ";", "$", NL, SP, FF}

\* how a line may go on after its first characters: not at all; a class and a
\* type; those and a payload of two fields with blanks around it; empty fields
LineTails ==
    { <<>>,
      <<TAB, "I", TAB, "A", NL>>,
      <<TAB, "I", TAB, "A", TAB, SP, "x", TAB, "y", FF, NL>>,
      <<TAB, TAB, TAB, TAB, NL, NL>> }

Lines == {h \o t : h \in UNION {[1..k -> Alphabet] : k \in 0..MaxLineLen}, t \in LineTails}

UrlC == <<"h", "/", "c", ".", "z", "o", "n", "e">>
UrlUpperC == <<"h", "/", "C", ".", "z", "o", "n", "e", "/">>
UrlN == <<"h", "/", "N", ".", "z", "o", "n", "e">>
UrlGz == <<"h", "/", "n", ".", "g", "z">>

Urls == {UrlC, UrlUpperC, UrlN, UrlGz}

Listings == UNION {[1..k -> Urls] : k \in 0..MaxListing}

\* TLD_WHITELIST texts: unset, entries with blanks and capitals, only commas
WhitelistEnvs ==
    { <<>>,
      <<"c">>,
      <<SP, "C", CR, ",", "x", ",">>,
      <<"n", ",", "c">>,
      <<",", SP, ",">> }

\* resources: one record and a comment; three records, two alike; none
LineA == <<"a", TAB, "1", TAB, "I", TAB, "A", TAB, "x", NL>>
LineB == <<"b", TAB, TAB, TAB, NL>>
LineComment == <<";", "c", NL>>
LineDirective == <<"$", "O", NL>>

FileOne == <<LineA, LineComment>>
FileThree == <<LineA, LineA, LineB>>
FileNone == <<LineDirective>>

Outcomes ==
    { [raised |-> TRUE, files |-> <<>>],
      [raised |-> FALSE, files |-> <<[ext |-> "csv", lines |-> FileOne]>>],
      [raised |-> FALSE, files |-> <<[ext |-> "gz", lines |-> FileOne]>>],
      [raised |-> FALSE, files |-> <<[ext |-> "txt", lines |-> FileNone],
                                     [ext |-> "zone", lines |-> FileThree]>>],
      [raised |-> FALSE, files |-> <<[ext |-> "txt", lines |-> FileNone]>>] }

\* the rows of each resource of the runs, parsed once
ParsedResources == [ls \in {FileOne, FileThree, FileNone} |-> ParseLines(ls)]

\* every row stream_zone_lines yields for a file: ParseLines of its lines
ParseAll(lines) ==
    IF lines \in DOMAIN ParsedResources THEN ParsedResources[lines] ELSE ParseLines(lines)

\* the runs of main: <<listing, TLD_WHITELIST, MAX_TLDS>>
RunUrls == {UrlC, UrlN}
RunConfigs ==
    { <<<<>>, <<>>, 2>>,
      <<<<UrlC>>, <<>>, 2>>,
      <<<<UrlC, UrlN>>, <<"n">>, 1>>,
      <<<<UrlC, UrlN>>, <<>>, 2>>,
      <<<<UrlN, UrlC>>, <<"c", ",", "n">>, 1>> }

\* url_tlds of each run: the empty listing returns before the selection
RunSelections ==
    {IF cfg[1] = <<>> THEN <<>> ELSE SelectUrlTlds(cfg[1], ParseWhitelist(cfg[2]), cfg[3]) :
        cfg \in RunConfigs}

Tlds == {tld_from_url(u) : u \in RunUrls}

NoSync == [path |-> None, committed |-> FALSE]

\* -------------------------------------------------------------------- Init
InitParseVars ==
    /\ line = <<>>
    /\ row = None
    /\ parsed = FALSE

InitSelVars ==
    /\ sel_urls = <<>>
    /\ sel_env = <<>>
    /\ sel_max = 0
    /\ sel_out = <<>>
    /\ sel_done = FALSE

InitMainVars ==
    /\ pc = "idle"
    /\ url_tlds = <<>>
    /\ idx = 1
    /\ batch_size = 1
    /\ path = None
    /\ err = ""
    /\ downloads = 0
    /\ conns = 0
    /\ deleted = 0
    /\ pos = 0
    /\ batch = <<>>
    /\ inserted = 0
    /\ calls = <<>>
    /\ pending = <<>>
    /\ result = None
    /\ schema = FALSE
    /\ records = <<>>
    /\ zones = <<>>
    /\ now = 0
    /\ snap = [records |-> <<>>, zones |-> <<>>, conns |-> 0]
    /\ lastSync = [k \in Tlds |-> NoSync]
    /\ hist = None

Init == InitParseVars /\ InitSelVars /\ InitMainVars

\* ---------------------------------------------------------------- parse_line
InitParse ==
    /\ line \in Lines
    /\ row = None
    /\ parsed = FALSE
    /\ InitSelVars
    /\ InitMainVars

ParseLine ==
    /\ ~parsed
    /\ row' = parse_line(line)
    /\ parsed' = TRUE
    /\ UNCHANGED <<line, selVars, mainVars>>

NextParse == ParseLine

SpecParse == InitParse /\ [][NextParse]_vars

\* ----------------------------------------------------------------- selection
InitSelect ==
    /\ sel_urls \in Listings
    /\ sel_env \in WhitelistEnvs
    /\ sel_max \in (0 - 1)..MaxCount
    /\ sel_out = <<>>
    /\ sel_done = FALSE
    /\ InitParseVars
    /\ InitMainVars

Select ==
    /\ ~sel_done
    /\ sel_out' = SelectUrlTlds(sel_urls, ParseWhitelist(sel_env), sel_max)
    /\ sel_done' = TRUE
    /\ UNCHANGED <<sel_urls, sel_env, sel_max, parseVars, mainVars>>

NextSelect == Select

SpecSelect == InitSelect /\ [][NextSelect]_vars

\* ---------------------------------------------------------------------- main
Ended == {"done", "noop", "aborted", "exit1"}

CurTld == url_tlds[idx][2]

ResetSync ==
    /\ deleted' = 0
    /\ pos' = 0
    /\ batch' = <<>>
    /\ inserted' = 0
    /\ calls' = <<>>
    /\ pending' = <<>>

\* DATABASE_URL or the CZDS credentials are missing: sys.exit(1)
MainConfigError ==
    /\ pc \in {"idle"} \cup Ended
    /\ now < MaxClock
    /\ pc' = "exit1"
    /\ url_tlds' = <<>>
    /\ idx' = 1
    /\ path' = None
    /\ err' = ""
    /\ downloads' = 0
    /\ conns' = 0
    /\ result' = None
    /\ ResetSync
    /\ snap' = [records |-> records, zones |-> zones, conns |-> 0]
    /\ UNCHANGED <<batch_size, storeVars, lastSync, hist, parseVars, selVars>>

\* main up to the connection for ensure_schema
MainStart ==
    /\ pc \in {"idle"} \cup Ended
    /\ now < MaxClock
    /\ \E sel \in RunSelections, bs \in 1..MaxBatch :
          /\ url_tlds' = sel
          /\ batch_size' = bs
          /\ pc' = IF sel = <<>> THEN "noop" ELSE "schema"
    /\ idx' = 1
    /\ path' = None
    /\ err' = ""
    /\ downloads' = 0
    /\ conns' = 0
    /\ result' = None
    /\ ResetSync
    /\ snap' = [records |-> records, zones |-> zones, conns |-> 0]
    /\ UNCHANGED <<storeVars, lastSync, hist, parseVars, selVars>>

\* get_zonefiles_list raises: nothing catches it
MainListFail ==
    /\ pc \in {"idle"} \cup Ended
    /\ now < MaxClock
    /\ pc' = "aborted"
    /\ err' = "list"
    /\ url_tlds' = <<>>
    /\ idx' = 1
    /\ path' = None
    /\ downloads' = 0
    /\ conns' = 0
    /\ result' = None
    /\ ResetSync
    /\ snap' = [records |-> records, zones |-> zones, conns |-> 0]
    /\ UNCHANGED <<batch_size, storeVars, lastSync, hist, parseVars, selVars>>

\* connect, ensure_schema, close
MainSchema ==
    /\ pc = "schema"
    /\ conns' = conns + 1
    /\ schema' = TRUE
    /\ pc' = "loop"
    /\ UNCHANGED <<url_tlds, idx, batch_size, path, err, downloads, syncVars,
                   records, zones, now, histVars, parseVars, selVars>>

\* connect or ensure_schema raises: nothing catches it
MainSchemaFail ==
    /\ pc = "schema"
    /\ conns' = conns + 1
    /\ pc' = "aborted"
    /\ err' = "schema"
    /\ UNCHANGED <<url_tlds, idx, batch_size, path, downloads, syncVars,
                   storeVars, histVars, parseVars, selVars>>

\* one pass of the for loop up to the call of sync_tld_to_db: the download,
\* `continue` when it found nothing, else the connection for the sync (which
\* may fail to open: nothing catches that either)
Download ==
    /\ pc = "loop"
    /\ idx <= Len(url_tlds)
    /\ \E outcome \in Outcomes, connected \in BOOLEAN :
          LET p == download_zone(outcome)
          IN  /\ PathFound(p) => now < MaxClock
              /\ ~PathFound(p) => connected
              /\ path' = p
              /\ IF ~PathFound(p)
                 THEN /\ idx' = idx + 1
                      /\ pc' = "loop"
                      /\ UNCHANGED <<conns, now, err>>
                 ELSE /\ idx' = idx
                      /\ pc' = IF connected THEN "delete" ELSE "aborted"
                      /\ err' = IF connected THEN err ELSE "connect"
                      /\ conns' = conns + 1
                      /\ now' = IF connected THEN now + 1 ELSE now
    /\ downloads' = downloads + 1
    /\ snap' = [records |-> records, zones |-> zones, conns |-> conns]
    /\ ResetSync
    /\ UNCHANGED <<url_tlds, batch_size, result, schema, records, zones,
                   lastSync, hist, parseVars, selVars>>

\* an exception leaves sync_tld_to_db: finally conn.close(), and main ends.
\* The locals keep the values they had at the raise, which the failing step
\* gives; pending keeps what the closed connection had inserted and never
\* committed.
Abort(e) ==
    /\ pc' = "aborted"
    /\ err' = e
    /\ records' = ConnClose(records, pending')
    /\ hist' = None
    /\ UNCHANGED <<url_tlds, idx, batch_size, path, downloads, conns, result,
                   schema, zones, now, snap, lastSync, parseVars, selVars>>

\* the DELETE and its commit
SyncDelete ==
    /\ pc = "delete"
    /\ deleted' = DeletedCount(records, CurTld)
    /\ records' = DeleteRecords(records, CurTld)
    /\ inserted' = 0
    /\ batch' = <<>>
    /\ pc' = "read"
    /\ lastSync' = [lastSync EXCEPT ![CurTld] = [path |-> path, committed |-> FALSE]]
    /\ UNCHANGED <<url_tlds, idx, batch_size, path, err, downloads, conns, pos,
                   calls, pending, result, schema, zones, now, snap, hist,
                   parseVars, selVars>>

\* the DELETE raises, or it is executed, its rowcount read, and its commit
\* raises: the closed connection discards the delete
SyncDeleteFail ==
    /\ pc = "delete"
    /\ \E executed \in BOOLEAN :
          deleted' = IF executed THEN DeletedCount(records, CurTld) ELSE deleted
    /\ UNCHANGED <<pos, batch, inserted, calls, pending>>
    /\ Abort("delete")

\* one line of the resource: parsed, buffered, and the buffer inserted when full
SyncRead ==
    /\ pc = "read"
    /\ path # None
    /\ pos < Len(Val(path).lines)
    /\ LET r == parse_line(Val(path).lines[pos + 1])
           b == IF r # None THEN Append(batch, <<CurTld>> \o Val(r)) ELSE batch
       IN  IF r # None /\ BatchFull(b, batch_size)
           THEN /\ pending' = pending \o InsertRows(b, now)
                /\ calls' = Append(calls, Len(b))
                /\ inserted' = inserted + Len(b)
                /\ batch' = <<>>
           ELSE /\ batch' = b
                /\ UNCHANGED <<pending, calls, inserted>>
    /\ pos' = pos + 1
    /\ UNCHANGED <<runVars, deleted, result, storeVars, histVars, parseVars, selVars>>

\* opening or reading the resource raises
SyncReadFail ==
    /\ pc = "read"
    /\ UNCHANGED <<deleted, pos, batch, inserted, calls, pending>>
    /\ Abort("read")

\* the next line is read, its row appended and the batch full, and
\* execute_values raises for it
SyncInsertFail ==
    /\ pc = "read"
    /\ path # None
    /\ pos < Len(Val(path).lines)
    /\ LET r == parse_line(Val(path).lines[pos + 1])
       IN  /\ r # None
           /\ BatchFull(Append(batch, <<CurTld>> \o Val(r)), batch_size)
           /\ batch' = Append(batch, <<CurTld>> \o Val(r))
    /\ pos' = pos + 1
    /\ UNCHANGED <<deleted, inserted, calls, pending>>
    /\ Abort("insert")

AtEnd == pc = "read" /\ path # None /\ pos = Len(Val(path).lines)

\* the input is exhausted: the rest of the buffer is inserted, and the commit
SyncFlush ==
    /\ AtEnd
    /\ LET pend == IF batch # <<>> THEN pending \o InsertRows(batch, now) ELSE pending
       IN  /\ pending' = <<>>
           /\ records' = Commit(records, pend)
    /\ calls' = IF batch # <<>> THEN Append(calls, Len(batch)) ELSE calls
    /\ inserted' = IF batch # <<>> THEN inserted + Len(batch) ELSE inserted
    /\ pc' = "zone"
    /\ lastSync' = [lastSync EXCEPT ![CurTld] = [path |-> path, committed |-> TRUE]]
    /\ UNCHANGED <<url_tlds, idx, batch_size, path, err, downloads, conns, deleted,
                   pos, batch, result, schema, zones, now, snap, hist, parseVars,
                   selVars>>

\* the input is exhausted, and either the execute_values of the rest of the
\* buffer raises, or the rest is inserted and counted (the buffer is not
\* cleared) and the commit raises: the closed connection discards every batch
\* of the sync
SyncFlushFail ==
    /\ AtEnd
    /\ \E inserting \in BOOLEAN :
          /\ inserting => batch # <<>>
          /\ LET counted == batch # <<>> /\ ~inserting
             IN  /\ pending' = IF counted THEN pending \o InsertRows(batch, now)
                               ELSE pending
                 /\ calls' = IF counted THEN Append(calls, Len(batch)) ELSE calls
                 /\ inserted' = IF counted THEN inserted + Len(batch) ELSE inserted
    /\ UNCHANGED <<deleted, pos, batch>>
    /\ Abort("flush")

\* the zones upsert, its commit, the return, and conn.close()
SyncZone ==
    /\ pc = "zone"
    /\ zones' = UpsertZone(zones, CurTld, now)
    /\ result' = Some(inserted)
    /\ idx' = idx + 1
    /\ pc' = "loop"
    /\ hist' = Some([tld |-> CurTld, lines |-> Val(path).lines, n |-> inserted,
                     before |-> snap.records,
                     records |-> records])
    /\ UNCHANGED <<url_tlds, batch_size, path, err, downloads, conns, deleted, pos,
                   batch, inserted, calls, pending, schema, records, now, snap,
                   lastSync, parseVars, selVars>>

SyncZoneFail ==
    /\ pc = "zone"
    /\ UNCHANGED <<deleted, pos, batch, inserted, calls, pending>>
    /\ Abort("zone")

\* the loop is over: print("Done.")
MainDone ==
    /\ pc = "loop"
    /\ idx > Len(url_tlds)
    /\ pc' = "done"
    /\ UNCHANGED <<url_tlds, idx, batch_size, path, err, downloads, conns, syncVars,
                   storeVars, histVars, parseVars, selVars>>

Next ==
    \/ MainConfigError
    \/ MainStart
    \/ MainListFail
    \/ MainSchema
    \/ MainSchemaFail
    \/ Download
    \/ SyncDelete
    \/ SyncDeleteFail
    \/ SyncRead
    \/ SyncReadFail
    \/ SyncInsertFail
    \/ SyncFlush
    \/ SyncFlushFail
    \/ SyncZone
    \/ SyncZoneFail
    \/ MainDone

Spec == Init /\ [][Next]_vars

\* ===================================================================== C10
\* What the claim's words say of a line, from the positions of its tabs.
Chomped(l) ==
    LET k == CHOOSE n \in 0..Len(l) :
                 /\ \A i \in (n + 1)..Len(l) : l[i] = NL
                 /\ n = 0 \/ l[n] # NL
    IN  SubSeq(l, 1, k)

TabPos(l) == {i \in 1..Len(l) : l[i] = TAB}

NthTab(l, n) == CHOOSE i \in TabPos(l) : Cardinality({j \in TabPos(l) : j < i}) = n - 1

\* field n, counted from 0
Field(l, n) ==
    SubSeq(l,
           IF n = 0 THEN 1 ELSE NthTab(l, n) + 1,
           IF Cardinality(TabPos(l)) > n THEN NthTab(l, n + 1) - 1 ELSE Len(l))

\* everything after field 3
AfterField3(l) ==
    IF Cardinality(TabPos(l)) >= 4 THEN SubSeq(l, NthTab(l, 4) + 1, Len(l)) ELSE <<>>

Trimmed(s) ==
    LET inked == {i \in 1..Len(s) : ~IsSpace(s[i])}
    IN  IF inked = {} THEN <<>>
        ELSE SubSeq(s, CHOOSE i \in inked : \A j \in inked : i <= j,
                       CHOOSE i \in inked : \A j \in inked : i >= j)

RECURSIVE Pow10(_)
Pow10(n) == IF n = 0 THEN 1 ELSE 10 * Pow10(n - 1)

RECURSIVE DecimalFrom(_, _)
DecimalFrom(s, i) ==
    IF i > Len(s) THEN 0 ELSE DigitVal(s[i]) * Pow10(Len(s) - i) + DecimalFrom(s, i + 1)

\* the integer a TTL text of the alphabet stands for, if it stands for one
TtlOf(f) ==
    LET t == Trimmed(f)
    IN  IF t # <<>> /\ \A i \in 1..Len(t) : IsDigit(t[i]) THEN Some(DecimalFrom(t, 1))
        ELSE None

NoRecordCase(l) ==
    \/ Chomped(l) = <<>>
    \/ Chomped(l)[1] \in {";", "$"}
    \/ Cardinality(TabPos(Chomped(l))) < 3

\* C10: parse_line yields no record exactly when the line, its trailing
\* newlines removed, is empty, begins with ';' or '$', or has fewer than 4
\* tab-separated fields; otherwise the record's owner, class and type are
\* fields 0, 2 and 3 (empty class or type being no value), its TTL is field 1
\* as an integer (no value when empty or not a number), and its payload is
\* the text after field 3, trimmed (no value when empty).
C10_ParseLine ==
    parsed =>
        /\ (row = None) <=> NoRecordCase(line)
        /\ row # None =>
              LET l == Chomped(line)
                  r == Val(row)
              IN  /\ r[1] = Field(l, 0)
                  /\ r[2] = TtlOf(Field(l, 1))
                  /\ r[3] = OrNone(Field(l, 2))
                  /\ r[4] = OrNone(Field(l, 3))
                  /\ r[5] = OrNone(Trimmed(AfterField3(l)))

\* a record with an integer TTL and a payload of two fields rejoined with a tab
C10_Witness ==
    /\ parsed
    /\ row # None
    /\ Val(row)[2] = Some(12)
    /\ Val(row)[5] = Some(<<"x", TAB, "y">>)

\* ====================================================================== C9
\* the allow-list as configured: the comma-separated entries of the text,
\* trimmed, the empty ones dropped
AllowEntries(env) ==
    {Trimmed(SubSeq(env, i, j)) :
        <<i, j>> \in {ij \in (1..(Len(env) + 1)) \X (0..Len(env)) :
                        /\ ij[1] <= ij[2] + 1
                        /\ \A k \in ij[1]..ij[2] : env[k] # ","
                        /\ ij[1] = 1 \/ env[ij[1] - 1] = ","
                        /\ ij[2] = Len(env) \/ env[ij[2] + 1] = ","}} \ {<<>>}

SameLetter(a, b) ==
    \/ a = b
    \/ \E k \in 1..Len(UpperChars) : {a, b} = {UpperChars[k], LowerChars[k]}

SameIgnoringCase(a, b) ==
    Len(a) = Len(b) /\ \A i \in 1..Len(a) : SameLetter(a[i], b[i])

\* the listed resources at the positions of I, in listing order
Listed(I) ==
    [j \in 1..Cardinality(I) |->
        LET i == CHOOSE n \in I : Cardinality({m \in I : m < n}) = j - 1
        IN  <<sel_urls[i], tld_from_url(sel_urls[i])>>]

\* C9: with a non-empty allow-list the selected resources are exactly the
\* listed ones whose key matches an entry ignoring case, in listing order,
\* whatever the maximum count; with none they are the first sel_max listed
\* ones (sel_max a count, 0 or more) in listing order.
C9_Selection ==
    sel_done =>
        /\ AllowEntries(sel_env) # {} =>
              sel_out = Listed({i \in 1..Len(sel_urls) :
                                  \E e \in AllowEntries(sel_env) :
                                      SameIgnoringCase(tld_from_url(sel_urls[i]), e)})
        /\ AllowEntries(sel_env) = {} /\ sel_max >= 0 =>
              sel_out = Listed({i \in 1..Len(sel_urls) : i <= sel_max})

\* an allow-list that selects, ignoring case, more resources than the maximum
\* count, and not all that are listed
C9_Witness ==
    /\ sel_done
    /\ AllowEntries(sel_env) # {}
    /\ sel_max >= 0
    /\ Len(sel_out) > sel_max
    /\ Len(sel_out) < Len(sel_urls)
    /\ \E j \in 1..Len(sel_out) : sel_out[j][2] \notin AllowEntries(sel_env)

\* ============================================================ claims on main
\* the columns the program writes, of the rows of one tld, in id order
Data(recs, tld) ==
    LET rows == RowsWhere(recs, tld, TRUE)
    IN  [i \in 1..Len(rows) |-> RowData(rows[i])]

\* the rows a resource's records make for a tld
WithTld(tld, rows) == [i \in 1..Len(rows) |-> <<tld>> \o rows[i]]

SyncErrs == {"delete", "read", "insert", "flush", "zone"}

\* ====================================================================== C1
\* C1 (as claimed): a failure while syncing one key does not abort the run;
\* when the run has ended, every selected key was downloaded and the run has
\* reached its completion step.
C1_SyncFailureDoesNotAbort ==
    (pc \in Ended /\ err \in SyncErrs) =>
        (pc = "done" /\ downloads = Len(url_tlds))

\* ====================================================================== C2
\* C2 (as claimed): a sync that fails while reading or inserting has not
\* read its resource to the end, so the most recent sync of its key that did
\* is the same before and after it: the key's Records are what they were when
\* the sync began, not an empty or partial set.
C2_FailedSyncKeepsRecords ==
    (pc = "aborted" /\ err \in {"read", "insert"}) =>
        Data(records, CurTld) = Data(snap.records, CurTld)

\* C2 (amended): in every committed store state the Records stored for a key
\* are those of the most recent sync of that key whose delete was committed:
\* all the records parsed from its resource if that sync also committed its
\* inserts, and none otherwise.
C2_RecordsOfLastDelete ==
    \A k \in Tlds :
        Data(records, k) =
            IF lastSync[k].committed
            THEN WithTld(k, ParseAll(Val(lastSync[k].path).lines))
            ELSE <<>>

\* a sync that failed after deleting rows the key had: the key is left empty
C2_Witness ==
    /\ pc = "aborted"
    /\ err \in {"read", "insert", "flush"}
    /\ deleted > 0
    /\ Data(records, CurTld) = <<>>

\* ====================================================================== C3
FailedAfterBatch ==
    /\ pc = "aborted"
    /\ err \in {"read", "insert", "flush"}
    /\ calls # <<>>

\* C3 (as claimed): when a sync fails after one or more batches were
\* inserted, the rows of those batches remain in the store.
C3_EarlierBatchesRemain ==
    FailedAfterBatch =>
        \A i \in 1..Len(pending) : \E j \in 1..Len(records) : records[j] = pending[i]

\* C3 (amended): when a sync fails after one or more batches were inserted,
\* none of their rows is in the store once the connection is closed: the key
\* has no Records at all.
C3_EarlierBatchesDiscarded ==
    FailedAfterBatch => Data(records, CurTld) = <<>>

\* the second batch insert of a sync failed
C3_Witness ==
    /\ FailedAfterBatch
    /\ err = "insert"
    /\ pending # <<>>

\* ====================================================================== C4
\* C4: the committed store never holds, for one key, rows of two syncs; and
\* from the commit of the delete to the end of the sync it holds for the key
\* no row but those this sync inserted.
C4_NoOldWithNew ==
    /\ \A i, j \in 1..Len(records) :
          RowTld(records[i]) = RowTld(records[j]) =>
              RowSyncedAt(records[i]) = RowSyncedAt(records[j])
    /\ pc \in {"read", "zone"} =>
          \A i \in 1..Len(records) :
              RowTld(records[i]) = CurTld => RowSyncedAt(records[i]) = now
    /\ pc = "read" => Data(records, CurTld) = <<>>

\* a key that had rows, its new rows committed
C4_Witness ==
    /\ pc = "zone"
    /\ deleted > 0
    /\ Data(records, CurTld) # <<>>

\* ====================================================================== C5
\* C5: after a download that failed, no connection was opened and no sync
\* run for the key: records and zones are as they were, and the run is at the
\* next key.
C5_FailedDownloadLeavesStore ==
    (downloads > 0 /\ path = None) =>
        /\ pc \in {"loop", "done"}
        /\ idx = downloads + 1
        /\ conns = snap.conns
        /\ records = snap.records
        /\ zones = snap.zones

\* a failed download of a key that has Records and a Zone row, a key to follow
C5_Witness ==
    /\ pc = "loop"
    /\ downloads = 1
    /\ path = None
    /\ idx <= Len(url_tlds)
    /\ Data(records, url_tlds[1][2]) # <<>>
    /\ HasZone(zones, url_tlds[1][2])

\* ====================================================================== C6
Repeated ==
    /\ pc = "zone"
    /\ hist # None
    /\ Val(hist).tld = CurTld
    /\ Val(hist).lines = Val(path).lines

\* C6: two syncs in succession of one key from one resource, the first
\* returned and the second with its inserts committed: the key's Records are
\* those the first left, the rows of the other keys are those the store held
\* before the first and after it, and the count to return is the count the
\* first returned.
C6_Idempotent ==
    Repeated =>
        /\ Data(records, CurTld) = Data(Val(hist).records, CurTld)
        /\ RowsWhere(records, CurTld, FALSE) = RowsWhere(Val(hist).before, CurTld, FALSE)
        /\ RowsWhere(records, CurTld, FALSE) = RowsWhere(Val(hist).records, CurTld, FALSE)
        /\ inserted = Val(hist).n

\* the resource of three records, two of them alike, synced twice over rows
\* the key had, while another key has rows of its own
C6_Witness ==
    /\ Repeated
    /\ inserted = 3
    /\ Len(Data(records, CurTld)) = 3
    /\ deleted = 3
    /\ RowsWhere(Val(hist).before, CurTld, FALSE) # <<>>
    /\ RowsWhere(records, CurTld, FALSE) # <<>>

\* ====================================================================== C7
Batched(n, b) ==
    [j \in 1..(n \div b) |-> b] \o (IF n % b > 0 THEN <<n % b>> ELSE <<>>)

InsertsDone == pc = "zone"

ParsedNow == ParseAll(Val(path).lines)

\* C7 (as claimed): ... and when B > N there is exactly one bulk insert.
C7_OneInsertWhenBatchLarger ==
    (InsertsDone /\ batch_size > Len(ParsedNow)) => Len(calls) = 1

\* C7 (amended): a sync that succeeds inserts each parsed record once, in
\* order, in N div B batches of B rows and then one of N mod B rows when that
\* is not 0, and returns N; with B > N there is one bulk insert when N >= 1
\* and none when N = 0.
C7_Batching ==
    /\ InsertsDone =>
          /\ calls = Batched(Len(ParsedNow), batch_size)
          /\ inserted = Len(ParsedNow)
          /\ Data(records, CurTld) = WithTld(CurTld, ParsedNow)
          /\ (batch_size > Len(ParsedNow) /\ Len(ParsedNow) >= 1) => Len(calls) = 1
          /\ Len(ParsedNow) = 0 => calls = <<>>
    /\ hist # None => Val(hist).n = Len(ParseAll(Val(hist).lines))

\* full batches and then a smaller last one
C7_Witness ==
    /\ InsertsDone
    /\ Len(calls) >= 2
    /\ calls[1] = batch_size
    /\ calls[Len(calls)] < batch_size

\* ====================================================================== C8
ZonesStep ==
    /\ \A k \in Tlds : HasZone(zones, k) => HasZone(zones', k)
    /\ zones' # zones =>
          /\ pc = "zone"
          /\ pending = <<>>
          /\ lastSync[CurTld] = [path |-> path, committed |-> TRUE]
          /\ Data(records, CurTld) = WithTld(CurTld, ParsedNow)
          /\ \E i \in 1..Len(zones') : zones'[i] = <<CurTld, now>>
          /\ \A i \in 1..Len(zones) : zones[i][1] # CurTld => zones'[i] = zones[i]

ZonesState ==
    /\ \A i, j \in 1..Len(zones) : i # j => zones[i][1] # zones[j][1]
    /\ pc \in {"delete", "read", "zone"} => zones = snap.zones
    /\ (pc = "aborted" /\ err \in SyncErrs) => zones = snap.zones

\* C8: the Zone row of a key is written only by the step that follows the
\* commit of all the Record inserts of its sync, so a sync that is running or
\* has failed has left zones as it was; zones holds at most one row per key,
\* and no step removes a row.
C8_Zones == []ZonesState /\ [][ZonesStep]_vars

\* a key synced twice: its one Zone row carries the time of the second sync
C8_Witness ==
    /\ pc \in {"loop", "done"}
    /\ hist # None
    /\ deleted > 0
    /\ now >= 2
    /\ \E i \in 1..Len(zones) : zones[i] = <<Val(hist).tld, now>>
    /\ \E i \in 1..Len(snap.zones) : snap.zones[i][1] = Val(hist).tld

====
